---- MODULE Spec2Model ----
(***************************************************************************)
(* State machine of flight/modules/StateEstimation/stateestimation.c:     *)
(* the shared dirty set updatedSensors, the notification handler           *)
(* sensorUpdatedCb, the estimation cycle StateEstimationCb, the settings   *)
(* handler settingsUpdatedCb and the LLA -> NED conversion getNED.         *)
(*                                                                         *)
(* updatedSensors is a volatile word that is read and written by plain     *)
(* loads and stores ("|=" and "^=" are load, operate, store), so every     *)
(* load and every store of it is a step of its own.                        *)
(***************************************************************************)
EXTENDS Integers, Sequences, FiniteSets, TLC

VARIABLES
    updatedSensors,  \* static volatile sensorUpdates updatedSensors (a set of channels)
    ppc,             \* per notification context: position inside sensorUpdatedCb
    pchan,           \* per notification context: the channel of ev->obj
    preg,            \* per notification context: the value loaded by "updatedSensors |= bit"
    cpc,             \* position inside StateEstimationCb ("idle": not running)
    alarm,           \* StateEstimationCb: uint8_t alarm
    sensors,         \* StateEstimationCb: stateEstimation sensors (the snapshot)
    xreg,            \* StateEstimationCb: the value loaded by "updatedSensors ^= ..."
    sRead,           \* StateEstimationCb: the samples s fetched in this cycle
    drained,         \* history: the mask read at line 178 of the current/last cycle
    ran,             \* history: filter units whose update ran in the current/last cycle
    trigger,         \* history: what started the current/last cycle
    notified,        \* history: channels OR-ed in by a handler and not yet in a drained mask
    AlarmAttitude,   \* SYSTEMALARMS_ALARM_ATTITUDE
    waiting,         \* callback scheduler: a dispatch is pending
    scheduled,       \* callback scheduler: a timed run is armed
    remaining,       \* callback scheduler: ms until the armed run is due
    elapsed,         \* history: ms passed since the callback was last armed by a cycle
    early,           \* history: the current/last cycle was dispatched while a timeout was pending
    homeLocation,    \* static HomeLocationData homeLocation
    LLA2NEDM,        \* static float LLA2NEDM[3]
    spc              \* position inside settingsUpdatedCb

vars == <<updatedSensors, ppc, pchan, preg, cpc, alarm, sensors, xreg, sRead,
          drained, ran, trigger, notified, AlarmAttitude, waiting, scheduled,
          remaining, elapsed, early, homeLocation, LLA2NEDM, spc>>

---------------------------------------------------------------------------
(* Bounds of the model *)

\* notification contexts that may run sensorUpdatedCb concurrently
NProd == 2
\* a notification starts only while fewer than this many channels are pending
MaxPending == 2
\* resolution of model time, in ms
TickMs == 50

(* Program constants *)
TIMEOUT_MS == 100
\* 6.378137E6f
EarthRadius == 6378137

---------------------------------------------------------------------------
(* Floats.  A float is a record: finite with an integer value, or NaN      *)
(* (standing for NaN and +-Inf: every operation used here maps a           *)
(* non-finite operand to a non-finite result), or the indeterminate        *)
(* content of an unwritten stack slot.                                     *)

F(v) == [k |-> "fin", v |-> v]
NaN == [k |-> "nan", v |-> 0]
Indet == [k |-> "indet", v |-> 0]

sane(x) == x.k = "fin"

fadd(a, b) == IF sane(a) /\ sane(b) THEN F(a.v + b.v) ELSE NaN
fsub(a, b) == IF sane(a) /\ sane(b) THEN F(a.v - b.v) ELSE NaN
fmul(a, b) == IF sane(a) /\ sane(b) THEN F(a.v * b.v) ELSE NaN

\* fabsf(x) > 1e-5f, on integer-valued floats; a comparison with NaN is false
fabsfGt1em5(x) == sane(x) /\ x.v # 0

---------------------------------------------------------------------------
(* Channels, samples, the snapshot *)

Chan == {"gyr", "acc", "mag", "pos", "vel", "bar", "ias"}

ISSET(bitfield, bit) == bit \in bitfield
UNSET(bitfield, bit) == bitfield \ {bit}
\* a ^ b on bit masks
XOR(a, b) == (a \ b) \cup (b \ a)

Unwritten3 == <<Indet, Indet, Indet>>
Unwritten1 == <<Indet>>

\* "stateEstimation sensors;" : an automatic variable, nothing initialised
FreshSensors ==
    [gyr |-> Unwritten3, acc |-> Unwritten3, mag |-> Unwritten3,
     pos |-> Unwritten3, vel |-> Unwritten3, bar |-> Unwritten1,
     ias |-> Unwritten1, updated |-> {}]

NoSamples == [c \in Chan |-> <<>>]

---------------------------------------------------------------------------
(* The UAVObject contents the handlers fetch: inputs, drawn from these sets *)

Vec(a, b, c) == [x |-> a, y |-> b, z |-> c]
Vel(a, b, c) == [North |-> a, East |-> b, Down |-> c]
Baro(a) == [Altitude |-> a]
Air(a, conn) == [CalibratedAirspeed |-> a, SensorConnected |-> conn]
Gps(lat, lon, alt, geoid) ==
    [Latitude |-> lat, Longitude |-> lon, Altitude |-> alt, GeoidSeparation |-> geoid]
Home(set, lat, lon, alt, be) ==
    [Set |-> set, Latitude |-> lat, Longitude |-> lon, Altitude |-> alt, Be |-> be]

BeOk == <<F(1), F(0), F(2)>>

\* one sane sample per channel
NominalSamples ==
    [c \in Chan |->
        CASE c \in {"gyr", "acc", "mag"} -> {Vec(F(1), F(2), F(3))}
          [] c = "vel" -> {Vel(F(1), F(2), F(3))}
          [] c = "bar" -> {Baro(F(4))}
          [] c = "ias" -> {Air(F(5), TRUE)}
          [] c = "pos" -> {Gps(F(1), F(1), F(1), F(0))}]

\* sane samples and samples with one component not sane, per channel
AllSamples ==
    [c \in Chan |->
        CASE c \in {"gyr", "acc", "mag"} ->
                {Vec(F(1), F(2), F(3)), Vec(NaN, F(2), F(3)),
                 Vec(F(1), NaN, F(3)), Vec(F(1), F(2), NaN)}
          [] c = "vel" ->
                {Vel(F(1), F(2), F(3)), Vel(NaN, F(2), F(3)),
                 Vel(F(1), NaN, F(3)), Vel(F(1), F(2), NaN)}
          [] c = "bar" -> {Baro(F(4)), Baro(NaN)}
          [] c = "ias" -> {Air(F(5), TRUE), Air(F(5), FALSE), Air(NaN, TRUE)}
          [] c = "pos" ->
                {Gps(F(0), F(0), F(0), F(0)), Gps(F(1), F(0), F(0), F(0)),
                 Gps(F(0), F(1), F(0), F(0)), Gps(F(0), F(0), F(1), F(0)),
                 Gps(F(1), F(1), F(1), F(0)), Gps(F(1), F(1), F(0), F(1)),
                 Gps(NaN, F(1), F(1), F(0)), Gps(F(1), NaN, F(1), F(0)),
                 Gps(F(1), F(1), NaN, F(0)), Gps(F(1), F(1), F(1), NaN)}]

NominalHomes == {Home(TRUE, F(0), F(0), F(0), BeOk)}

AllHomes ==
    {Home(TRUE, F(0), F(0), F(0), BeOk),
     Home(TRUE, F(1), F(1), F(1), BeOk),
     Home(FALSE, F(0), F(0), F(0), BeOk),
     Home(TRUE, NaN, F(0), F(0), BeOk),
     Home(TRUE, F(0), F(0), F(0), <<F(1), NaN, F(2)>>)}

---------------------------------------------------------------------------
(* settingsUpdatedCb: the linearisation matrix *)

HomeSane(h) ==
    /\ sane(h.Latitude) /\ sane(h.Longitude) /\ sane(h.Altitude)
    /\ sane(h.Be[1]) /\ sane(h.Be[2]) /\ sane(h.Be[3])

\* cosf(DEG2RAD(Latitude / 10.0e6f)) for the home latitudes of AllHomes: below
\* 2^-12 rad (140000 units of 1e-7 degree) the float cosine is exactly 1.0f
cosfHome(lat) == IF sane(lat) THEN F(1) ELSE NaN

\* LLA2NEDM[0..2] as computed from a sane home
Matrix(h) ==
    <<fadd(h.Altitude, F(EarthRadius)),
      fmul(cosfHome(h.Latitude), fadd(h.Altitude, F(EarthRadius))),
      F(0 - 1)>>

\* "static float LLA2NEDM[3]" before any assignment
ZeroMatrix == <<F(0), F(0), F(0)>>

---------------------------------------------------------------------------
(* getNED.  NED[0] and NED[1] are kept in units of DEG2RAD(1 / 10.0e6f)    *)
(* metres: dL[0] and dL[1] are the differences in 1e-7 degree.             *)

\* mutant: the altitude difference leaves the geoid separation out
getNED_NoGeoid(gpsPosition) ==
    LET dL == <<fsub(gpsPosition.Latitude, homeLocation.Latitude),
                fsub(gpsPosition.Longitude, homeLocation.Longitude),
                fsub(gpsPosition.Altitude, homeLocation.Altitude)>>
    IN  <<fmul(LLA2NEDM[1], dL[1]), fmul(LLA2NEDM[2], dL[2]), fmul(LLA2NEDM[3], dL[3])>>

getNED(gpsPosition) ==
    LET dL == <<fsub(gpsPosition.Latitude, homeLocation.Latitude),
                fsub(gpsPosition.Longitude, homeLocation.Longitude),
                fsub(fadd(gpsPosition.Altitude, gpsPosition.GeoidSeparation),
                     homeLocation.Altitude)>>
    IN  <<fmul(LLA2NEDM[1], dL[1]), fmul(LLA2NEDM[2], dL[2]), fmul(LLA2NEDM[3], dL[3])>>

---------------------------------------------------------------------------
(* StateEstimationCb: the sanity checks that build the snapshot *)

\* mutant: a failed check leaves the channel's bit set
SANITYCHECK3_KeepsBit(st, sv, shortname, a1, a2, a3) ==
    IF ISSET(st.updated, shortname)
    THEN LET s == sv[shortname][1] IN
         IF sane(s[a1]) /\ sane(s[a2]) /\ sane(s[a3])
         THEN [st EXCEPT ![shortname] = <<s[a1], s[a2], s[a3]>>]
         ELSE st
    ELSE st

SANITYCHECK3(st, sv, shortname, a1, a2, a3) ==
    IF ISSET(st.updated, shortname)
    THEN LET s == sv[shortname][1] IN
         IF sane(s[a1]) /\ sane(s[a2]) /\ sane(s[a3])
         THEN [st EXCEPT ![shortname] = <<s[a1], s[a2], s[a3]>>]
         ELSE [st EXCEPT !.updated = UNSET(@, shortname)]
    ELSE st

\* mutant: EXTRACHECK is never evaluated
SANITYCHECK1_NoExtra(st, sv, shortname, a1, connected) ==
    IF ISSET(st.updated, shortname)
    THEN LET s == sv[shortname][1] IN
         IF sane(s[a1])
         THEN [st EXCEPT ![shortname] = <<s[a1]>>]
         ELSE [st EXCEPT !.updated = UNSET(@, shortname)]
    ELSE st

\* EXTRACHECK is 1 (connected = FALSE) or s.SensorConnected == ..._TRUE
SANITYCHECK1(st, sv, shortname, a1, connected) ==
    IF ISSET(st.updated, shortname)
    THEN LET s == sv[shortname][1] IN
         IF sane(s[a1]) /\ (connected => s.SensorConnected)
         THEN [st EXCEPT ![shortname] = <<s[a1]>>]
         ELSE [st EXCEPT !.updated = UNSET(@, shortname)]
    ELSE st

\* lines 213-221; the third operand of || is s.Latitude all three times
PosCheck(st, sv) ==
    IF ISSET(st.updated, "pos")
    THEN LET s == sv["pos"][1] IN
         IF /\ homeLocation.Set
            /\ sane(s.Latitude) /\ sane(s.Longitude) /\ sane(s.Altitude)
            /\ (fabsfGt1em5(s.Latitude) \/ fabsfGt1em5(s.Latitude) \/ fabsfGt1em5(s.Latitude))
         THEN [st EXCEPT !["pos"] = getNED(s)]
         ELSE [st EXCEPT !.updated = UNSET(@, "pos")]
    ELSE st

SnapshotBuild(st, sv) ==
    LET s1 == SANITYCHECK3(st, sv, "gyr", "x", "y", "z")
        s2 == SANITYCHECK3(s1, sv, "acc", "x", "y", "z")
        s3 == SANITYCHECK3(s2, sv, "mag", "x", "y", "z")
        s4 == SANITYCHECK3(s3, sv, "vel", "North", "East", "Down")
        s5 == SANITYCHECK1(s4, sv, "bar", "Altitude", FALSE)
        s6 == SANITYCHECK1(s5, sv, "ias", "CalibratedAirspeed", TRUE)
    IN  PosCheck(s6, sv)

\* sensorname##GET(&s) under ISSET: the fetched sample, or nothing
Fetch(D, c) == IF ISSET(sensors.updated, c) THEN {<<smp>> : smp \in D[c]} ELSE {<<>>}

---------------------------------------------------------------------------
(* The callback scheduler, as the module uses it (DelayedCallbackCreate,   *)
(* DelayedCallbackDispatch, DelayedCallbackSchedule with UPDATEMODE_SOONER) *)

\* the callback is due: a dispatch is pending or the armed time has come
Due == waiting \/ (scheduled /\ remaining = 0)

\* DelayedCallbackSchedule(cb, ms, UPDATEMODE_SOONER): arm, or move an armed
\* run to the sooner time; yields <<scheduled', remaining'>>
DelayedCallbackSchedule(ms) ==
    IF ~scheduled \/ ms < remaining THEN <<TRUE, ms>> ELSE <<scheduled, remaining>>

---------------------------------------------------------------------------
(* State after StateEstimationInitialize and StateEstimationStart: the     *)
(* callback is created but neither dispatched nor scheduled, and           *)
(* settingsUpdatedCb(NULL) has run once on the stored HomeLocation object. *)

InitWith(H) ==
    /\ updatedSensors = {}
    /\ ppc = [p \in 1..NProd |-> "idle"]
    /\ pchan = [p \in 1..NProd |-> "gyr"]
    /\ preg = [p \in 1..NProd |-> {}]
    /\ cpc = "idle"
    /\ alarm = 0
    /\ sensors = FreshSensors
    /\ xreg = {}
    /\ sRead = NoSamples
    /\ drained = {}
    /\ ran = <<>>
    /\ trigger = "none"
    /\ notified = {}
    /\ AlarmAttitude = "uninitialised"
    /\ waiting = FALSE
    /\ scheduled = FALSE
    /\ remaining = 0
    /\ elapsed = 0
    /\ early = FALSE
    /\ homeLocation \in H
    /\ LLA2NEDM = IF HomeSane(homeLocation) THEN Matrix(homeLocation) ELSE ZeroMatrix
    /\ spc = "idle"

cycleVars == <<cpc, alarm, sensors, xreg, sRead, drained, ran, trigger, AlarmAttitude>>
prodVars == <<ppc, pchan, preg>>
schedVars == <<waiting, scheduled, remaining, elapsed, early>>
homeVars == <<homeLocation, LLA2NEDM, spc>>

---------------------------------------------------------------------------
(* sensorUpdatedCb, run by notification context p for the object of channel c *)

Pending == updatedSensors \cup {pchan[q] : q \in {r \in 1..NProd : ppc[r] = "loaded"}}

\* if (!ev) return;
sensorUpdatedCbNull(p) ==
    /\ ppc[p] = "idle"
    /\ UNCHANGED vars

\* the load of "updatedSensors |= c_UPDATED"
sensorUpdatedCbLoad(p, c) ==
    /\ ppc[p] = "idle"
    /\ Cardinality(Pending \cup {c}) <= MaxPending
    /\ ppc' = [ppc EXCEPT ![p] = "loaded"]
    /\ pchan' = [pchan EXCEPT ![p] = c]
    /\ preg' = [preg EXCEPT ![p] = updatedSensors]
    /\ UNCHANGED <<updatedSensors, notified, cycleVars, schedVars, homeVars>>

\* the store of "updatedSensors |= c_UPDATED"
sensorUpdatedCbStore(p) ==
    /\ ppc[p] = "loaded"
    /\ updatedSensors' = preg[p] \cup {pchan[p]}
    /\ notified' = notified \cup {pchan[p]}
    /\ ppc' = [ppc EXCEPT ![p] = "stored"]
    /\ pchan' = [pchan EXCEPT ![p] = "gyr"]
    /\ preg' = [preg EXCEPT ![p] = {}]
    /\ UNCHANGED <<cycleVars, schedVars, homeVars>>

\* DelayedCallbackDispatch(stateEstimationCallback); return
sensorUpdatedCbDispatch(p) ==
    /\ ppc[p] = "stored"
    /\ waiting' = TRUE
    /\ ppc' = [ppc EXCEPT ![p] = "idle"]
    /\ UNCHANGED <<updatedSensors, notified, pchan, preg, cycleVars, scheduled, remaining,
                   elapsed, early, homeVars>>

\* the whole handler, run without preemption
sensorUpdatedCb(c) ==
    /\ \A p \in 1..NProd : ppc[p] = "idle"
    /\ Cardinality(updatedSensors \cup {c}) <= MaxPending
    /\ updatedSensors' = updatedSensors \cup {c}
    /\ notified' = notified \cup {c}
    /\ waiting' = TRUE
    /\ UNCHANGED <<prodVars, cycleVars, scheduled, remaining, elapsed, early, homeVars>>

---------------------------------------------------------------------------
(* StateEstimationCb *)

\* the scheduler runs the due callback: the pending dispatch and the armed
\* time are both reset just before the call; uint8_t alarm = 0
CbRun ==
    /\ cpc = "idle"
    /\ Due
    /\ trigger' = IF waiting THEN "dispatch" ELSE "timeout"
    /\ early' = (waiting /\ scheduled /\ remaining > 0)
    /\ waiting' = FALSE
    /\ scheduled' = FALSE
    /\ remaining' = 0
    /\ elapsed' = 0
    /\ cpc' = "check"
    /\ alarm' = 0
    /\ UNCHANGED <<updatedSensors, notified, sensors, xreg, sRead, drained, ran,
                   AlarmAttitude, prodVars, homeVars>>

\* lines 170-174 (the test reads the dirty set declared as updatedSensors)
CbCheck ==
    /\ cpc = "check"
    /\ IF updatedSensors = {}
       THEN AlarmAttitude' = "warning" /\ alarm' = 1
       ELSE UNCHANGED <<AlarmAttitude, alarm>>
    /\ cpc' = "read"
    /\ UNCHANGED <<updatedSensors, notified, sensors, xreg, sRead, drained, ran,
                   trigger, prodVars, schedVars, homeVars>>

\* line 178: sensors.updated = updatedSensors
CbRead ==
    /\ cpc = "read"
    /\ sensors' = [sensors EXCEPT !.updated = updatedSensors]
    /\ drained' = updatedSensors
    /\ notified' = notified \ updatedSensors
    /\ cpc' = "xload"
    /\ UNCHANGED <<updatedSensors, alarm, xreg, sRead, ran, trigger, AlarmAttitude,
                   prodVars, schedVars, homeVars>>

\* line 179: the load of "updatedSensors ^= sensors.updated"
CbXorLoad ==
    /\ cpc = "xload"
    /\ xreg' = updatedSensors
    /\ cpc' = "xstore"
    /\ UNCHANGED <<updatedSensors, notified, alarm, sensors, sRead, drained, ran,
                   trigger, AlarmAttitude, prodVars, schedVars, homeVars>>

\* line 179: the store of "updatedSensors ^= sensors.updated"
CbXorStore ==
    /\ cpc = "xstore"
    /\ updatedSensors' = XOR(xreg, sensors.updated)
    /\ xreg' = {}
    /\ cpc' = "sanity"
    /\ UNCHANGED <<notified, alarm, sensors, sRead, drained, ran, trigger,
                   AlarmAttitude, prodVars, schedVars, homeVars>>

\* lines 181-221, the samples drawn from D
CbSanity(D) ==
    /\ cpc = "sanity"
    /\ \E g \in Fetch(D, "gyr"), a \in Fetch(D, "acc"), m \in Fetch(D, "mag"),
          v \in Fetch(D, "vel"), b \in Fetch(D, "bar"), i \in Fetch(D, "ias"),
          q \in Fetch(D, "pos") :
          LET sv == [gyr |-> g, acc |-> a, mag |-> m, vel |-> v, bar |-> b,
                     ias |-> i, pos |-> q]
          IN  /\ sRead' = sv
              /\ sensors' = SnapshotBuild(sensors, sv)
    /\ cpc' = "chain"
    /\ UNCHANGED <<updatedSensors, notified, alarm, xreg, drained, ran, trigger,
                   AlarmAttitude, prodVars, schedVars, homeVars>>

\* the filter units StateEstimationStart initialises, in that order
Filters == <<"mag", "baro", "stationary", "cf", "cfm", "ekf13", "ekf16">>

\* lines 223-227: the chain that is traversed (the comment is followed by no code)
filterChain == <<>>

CbChain ==
    /\ cpc = "chain"
    /\ ran' = ran \o filterChain
    /\ cpc' = "clear"
    /\ UNCHANGED <<updatedSensors, notified, alarm, sensors, xreg, sRead, drained,
                   trigger, AlarmAttitude, prodVars, schedVars, homeVars>>

\* lines 228-231
CbClear ==
    /\ cpc = "clear"
    /\ AlarmAttitude' = IF alarm = 0 THEN "ok" ELSE AlarmAttitude
    /\ cpc' = "resched"
    /\ UNCHANGED <<updatedSensors, notified, alarm, sensors, xreg, sRead, drained,
                   ran, trigger, prodVars, schedVars, homeVars>>

\* mutant: the cycle returns without rescheduling the callback
CbSchedule_Unarmed ==
    /\ cpc = "resched"
    /\ cpc' = "idle"
    /\ alarm' = 0
    /\ sensors' = FreshSensors
    /\ sRead' = NoSamples
    /\ drained' = {}
    /\ ran' = <<>>
    /\ trigger' = "none"
    /\ UNCHANGED <<updatedSensors, notified, xreg, AlarmAttitude, schedVars, prodVars, homeVars>>

\* mutant: the cycle arms the callback one tick ahead, not TIMEOUT_MS
CbSchedule_Short ==
    /\ cpc = "resched"
    /\ scheduled' = DelayedCallbackSchedule(TickMs)[1]
    /\ remaining' = DelayedCallbackSchedule(TickMs)[2]
    /\ cpc' = "idle"
    /\ alarm' = 0
    /\ sensors' = FreshSensors
    /\ sRead' = NoSamples
    /\ drained' = {}
    /\ ran' = <<>>
    /\ trigger' = "none"
    /\ elapsed' = 0
    /\ UNCHANGED <<updatedSensors, notified, xreg, AlarmAttitude, waiting, early, prodVars,
                   homeVars>>

\* line 232 and the return: the automatic variables end with the call
CbSchedule ==
    /\ cpc = "resched"
    /\ scheduled' = DelayedCallbackSchedule(TIMEOUT_MS)[1]
    /\ remaining' = DelayedCallbackSchedule(TIMEOUT_MS)[2]
    /\ cpc' = "idle"
    /\ alarm' = 0
    /\ sensors' = FreshSensors
    /\ sRead' = NoSamples
    /\ drained' = {}
    /\ ran' = <<>>
    /\ trigger' = "none"
    /\ elapsed' = 0
    /\ UNCHANGED <<updatedSensors, notified, xreg, AlarmAttitude, waiting, early, prodVars,
                   homeVars>>

---------------------------------------------------------------------------
(* settingsUpdatedCb, the new HomeLocation object drawn from H *)

\* line 237: HomeLocationGet(&homeLocation)
settingsUpdatedCbGet(H) ==
    /\ spc = "idle"
    /\ \E h \in H : homeLocation' = h
    /\ spc' = "got"
    /\ UNCHANGED <<updatedSensors, notified, LLA2NEDM, cycleVars, prodVars, schedVars>>

\* mutant: the matrix is computed from whatever was fetched
settingsUpdatedCbMatrix_Unchecked ==
    /\ spc = "got"
    /\ LLA2NEDM' = Matrix(homeLocation)
    /\ spc' = "idle"
    /\ UNCHANGED <<updatedSensors, notified, homeLocation, cycleVars, prodVars, schedVars>>

\* lines 239-256
settingsUpdatedCbMatrix ==
    /\ spc = "got"
    /\ LLA2NEDM' = IF HomeSane(homeLocation) THEN Matrix(homeLocation) ELSE LLA2NEDM
    /\ spc' = "idle"
    /\ UNCHANGED <<updatedSensors, notified, homeLocation, cycleVars, prodVars, schedVars>>

---------------------------------------------------------------------------
(* Time: TickMs pass while the callback is neither running nor due (a due  *)
(* callback is run at once, and a cycle is short against the tick).        *)

Max(a, b) == IF a > b THEN a ELSE b

Tick ==
    /\ cpc = "idle"
    /\ ~Due
    /\ scheduled
    /\ remaining' = Max(0, remaining - TickMs)
    /\ elapsed' = elapsed + TickMs
    /\ UNCHANGED <<updatedSensors, notified, waiting, scheduled, early, cycleVars, prodVars,
                   homeVars>>

---------------------------------------------------------------------------
(* Specifications *)

\* the cycle, the settings handler and time, shared by every specification
CycleNext(D) ==
    \/ CbRun
    \/ CbCheck
    \/ CbRead
    \/ CbXorLoad
    \/ CbXorStore
    \/ CbSanity(D)
    \/ CbChain
    \/ CbClear
    \/ CbSchedule

SettingsNext(H) ==
    \/ settingsUpdatedCbGet(H)
    \/ settingsUpdatedCbMatrix

\* notification contexts P preempting each other and the cycle, channels C
SensorNext(P, C) ==
    \/ \E p \in P : sensorUpdatedCbNull(p)
    \/ \E p \in P, c \in C : sensorUpdatedCbLoad(p, c)
    \/ \E p \in P : sensorUpdatedCbStore(p)
    \/ \E p \in P : sensorUpdatedCbDispatch(p)

\* the channels whose sensors notify in Spec
SpecChans == {"gyr", "pos"}

\* Spec: concurrent notifications against the cycle; nominal samples and home
Init == InitWith(NominalHomes)
Next ==
    \/ SensorNext(1..NProd, SpecChans)
    \/ CycleNext(NominalSamples)
    \/ SettingsNext(NominalHomes)
    \/ Tick
Spec == Init /\ [][Next]_vars

\* SpecData: every channel, sample and home reference; a notification handler
\* runs whole, between two cycles
InitData == InitWith(AllHomes)
NextData ==
    \/ \E c \in Chan : cpc = "idle" /\ sensorUpdatedCb(c)
    \/ CycleNext(AllSamples)
    \/ SettingsNext(AllHomes)
    \/ Tick
SpecData == InitData /\ [][NextData]_vars

\* SpecLive: one notification context, one channel; time passes and the
\* scheduler runs a due callback to its end (the cycle never blocks)
LiveChans == {"gyr"}
NextLive ==
    \/ SensorNext({1}, LiveChans)
    \/ CycleNext(NominalSamples)
    \/ SettingsNext(NominalHomes)
    \/ Tick
SpecLive ==
    /\ Init
    /\ [][NextLive]_vars
    /\ WF_vars(CycleNext(NominalSamples))
    /\ WF_vars(Tick)

---------------------------------------------------------------------------
(* Properties *)

\* the step that stores "updatedSensors ^= sensors.updated" (the drain)
DrainStep == cpc = "xstore" /\ cpc' = "sanity"
\* the step that reads the mask of the cycle (line 178)
ReadStep == cpc = "read" /\ cpc' = "xload"
\* the step that builds the snapshot (lines 181-221)
BuildStep == cpc = "sanity" /\ cpc' = "chain"
\* the snapshot is built and the cycle has not returned
Built == cpc \in {"chain", "clear", "resched"}

\* C1: no sensor notification is lost: a bit leaves updatedSensors only in
\* the drain of a cycle whose mask contains it.
C1_NoNotificationLost ==
    [][\A c \in Chan :
          (c \in updatedSensors /\ c \notin updatedSensors') => (DrainStep /\ c \in drained)]_vars

\* C2: idempotent consumption: the mask a cycle reads holds exactly the
\* channels OR-ed in by a handler since they were last in a mask: each
\* notification is in the next mask, and in no later one without a new call.
C2_ConsumedExactlyOnce ==
    [][ReadStep => drained' = notified]_vars

\* the float components of the sample s of channel c
FloatsOf(c, s) ==
    CASE c \in {"gyr", "acc", "mag"} -> {s.x, s.y, s.z}
      [] c = "vel" -> {s.North, s.East, s.Down}
      [] c = "bar" -> {s.Altitude}
      [] c = "ias" -> {s.CalibratedAirspeed}
      [] c = "pos" -> {s.Latitude, s.Longitude, s.Altitude, s.GeoidSeparation}

Unwritten(c) == IF c \in {"bar", "ias"} THEN Unwritten1 ELSE Unwritten3

\* C3: sanity fail-closed: a drained channel whose sample has a component
\* that is not sane is not valid in the snapshot and none of its fields is
\* written.
C3_SanityFailClosed ==
    Built =>
        \A c \in drained :
            (\E x \in FloatsOf(c, sRead[c][1]) : ~sane(x))
                => (c \notin sensors.updated /\ sensors[c] = Unwritten(c))

\* C4: at the end of a cycle the alarm is raised iff the drained mask was
\* empty and cleared iff it was not.
C4_AlarmIffEmptyDrain ==
    cpc = "resched" =>
        /\ (AlarmAttitude = "warning") <=> (drained = {})
        /\ (AlarmAttitude = "ok") <=> (drained # {})

\* C5: alarm liveness from start-up: unless a sensor notification occurs,
\* timeout-triggered cycles run and the alarm gets raised.
C5_AlarmAfterSilence ==
    \/ <>(AlarmAttitude = "warning")
    \/ <>(\E p \in 1..NProd : ppc[p] # "idle")

\* C6: the position channel becomes valid only under a home reference whose
\* validity flag is set and whose components are all sane.
C6_PosOnlySaneHome ==
    [][(BuildStep /\ "pos" \in sensors'.updated)
          => (homeLocation.Set /\ HomeSane(homeLocation))]_vars

\* C7: position non-degeneracy gate: with the bit drained, the home valid and
\* latitude, longitude and altitude sane, the channel is admitted iff one of
\* the three is non-zero.
C7_PosNonDegenerate ==
    [][(/\ BuildStep
        /\ "pos" \in drained
        /\ homeLocation.Set
        /\ sane(sRead'["pos"][1].Latitude)
        /\ sane(sRead'["pos"][1].Longitude)
        /\ sane(sRead'["pos"][1].Altitude))
          => ("pos" \in sensors'.updated
                <=> \/ sRead'["pos"][1].Latitude.v # 0
                    \/ sRead'["pos"][1].Longitude.v # 0
                    \/ sRead'["pos"][1].Altitude.v # 0)]_vars

\* C8: before the alarm is cleared and the callback rescheduled, the update
\* of every filter unit has run exactly once, in chain order.
C8_ChainTraversed ==
    cpc \in {"clear", "resched"} => ran = Filters

\* C9: every cycle ends by arming the callback TIMEOUT_MS ahead, and after a
\* cycle another one always starts, notifications or not.
C9_BoundedStaleness ==
    /\ [][(cpc = "resched" /\ cpc' = "idle") => (scheduled' /\ remaining' = TIMEOUT_MS)]_vars
    /\ (cpc = "resched") ~> (cpc = "check")

\* a cycle started by the timeout armed at the end of the cycle before it
C9_Witness == cpc = "check" /\ trigger = "timeout"

\* the gates of channel c on its sample s, as lines 186, 203 and 216 test them
GatePass(c, s) ==
    CASE c \in {"gyr", "acc", "mag"} -> sane(s.x) /\ sane(s.y) /\ sane(s.z)
      [] c = "vel" -> sane(s.North) /\ sane(s.East) /\ sane(s.Down)
      [] c = "bar" -> sane(s.Altitude)
      [] c = "ias" -> sane(s.CalibratedAirspeed) /\ s.SensorConnected
      [] c = "pos" -> /\ homeLocation.Set
                      /\ sane(s.Latitude) /\ sane(s.Longitude) /\ sane(s.Altitude)
                      /\ s.Latitude.v # 0

\* the values of the sample s of channel c, in the order of the snapshot's fields
ValuesOf(c, s) ==
    CASE c \in {"gyr", "acc", "mag"} -> <<s.x, s.y, s.z>>
      [] c = "vel" -> <<s.North, s.East, s.Down>>
      [] c = "bar" -> <<s.Altitude>>
      [] c = "ias" -> <<s.CalibratedAirspeed>>
      [] c = "pos" -> <<s.Latitude, s.Longitude, s.Altitude>>

\* the NED vector of the position sample s about the stored home
NEDOf(s) ==
    <<fmul(LLA2NEDM[1], fsub(s.Latitude, homeLocation.Latitude)),
      fmul(LLA2NEDM[2], fsub(s.Longitude, homeLocation.Longitude)),
      fmul(LLA2NEDM[3], fsub(fadd(s.Altitude, s.GeoidSeparation), homeLocation.Altitude))>>

MatrixStep == spc = "got" /\ spc' = "idle"

\* C11: a settings update whose home reference has a component that is not
\* sane leaves LLA2NEDM exactly as it was; the matrix is recomputed only
\* when every component is sane, and nothing else ever changes it.
C11_MatrixRetained ==
    [][/\ (MatrixStep /\ ~HomeSane(homeLocation)) => LLA2NEDM' = LLA2NEDM
       /\ (MatrixStep /\ HomeSane(homeLocation)) => LLA2NEDM' = Matrix(homeLocation)
       /\ (LLA2NEDM' # LLA2NEDM) => (MatrixStep /\ HomeSane(homeLocation))]_vars

\* a completed update with a reference that is not sane, after the matrix of
\* an earlier sane reference had been computed
C11_Witness ==
    /\ spc = "idle"
    /\ ~HomeSane(homeLocation)
    /\ LLA2NEDM # ZeroMatrix

\* C12: airspeed gate: the airspeed channel is valid in the snapshot only if
\* the sample read in this cycle reports the sensor connected and a sane
\* calibrated airspeed; a drained airspeed bit with a disconnected sensor is
\* cleared from the valid set.
C12_AirspeedGate ==
    Built =>
        /\ ("ias" \in sensors.updated) =>
               /\ sRead["ias"] # <<>>
               /\ sRead["ias"][1].SensorConnected
               /\ sane(sRead["ias"][1].CalibratedAirspeed)
               /\ sensors["ias"] = <<sRead["ias"][1].CalibratedAirspeed>>
        /\ ("ias" \in drained /\ ~sRead["ias"][1].SensorConnected) =>
               "ias" \notin sensors.updated

\* a drained airspeed bit, sane value, sensor disconnected: cleared
C12_Witness ==
    /\ cpc = "chain"
    /\ "ias" \in drained
    /\ sane(sRead["ias"][1].CalibratedAirspeed)
    /\ ~sRead["ias"][1].SensorConnected
    /\ "ias" \notin sensors.updated

\* the position sample s is at the stored home
AtHome(s) ==
    /\ s.Latitude = homeLocation.Latitude
    /\ s.Longitude = homeLocation.Longitude
    /\ fadd(s.Altitude, s.GeoidSeparation) = homeLocation.Altitude

\* C13: round trip at home: with a sane home reference whose matrix was
\* computed, getNED of every position at the home (latitude and longitude
\* equal, altitude plus geoid separation equal to the home altitude) is
\* (0, 0, 0).
C13_RoundTripAtHome ==
    (HomeSane(homeLocation) /\ LLA2NEDM = Matrix(homeLocation)) =>
        \A s \in AllSamples["pos"] : AtHome(s) => getNED(s) = <<F(0), F(0), F(0)>>

\* a cycle converted a position at the home whose altitude is the home
\* altitude only with the geoid separation added
C13_Witness ==
    /\ cpc = "chain"
    /\ "pos" \in sensors.updated
    /\ HomeSane(homeLocation) /\ LLA2NEDM = Matrix(homeLocation)
    /\ AtHome(sRead["pos"][1])
    /\ sRead["pos"][1].GeoidSeparation # F(0)
    /\ sensors["pos"] = <<F(0), F(0), F(0)>>

\* the step that takes the raise decision of the cycle (lines 170-174)
CheckStep == cpc = "check" /\ cpc' = "read"

\* C14: a cycle started by the dispatch of a sensor notification never finds
\* the dirty set empty and never raises the alarm: a raising cycle is always
\* a purely timeout-driven one.
C14_DispatchNeverRaises ==
    [][(CheckStep /\ trigger = "dispatch") => (updatedSensors # {} /\ alarm' = 0)]_vars

\* no handler is between its first step and its return
HandlersReturned == \A p \in 1..NProd : ppc[p] = "idle"

\* C15: every notification is eventually consumed: once its handler has
\* returned, a channel OR-ed in, also while a cycle was running, is eventually
\* in the mask a cycle reads, and a running cycle runs to its end.
C15_EventuallyConsumed ==
    /\ \A c \in Chan : (c \in notified /\ HandlersReturned) ~> (c \notin notified)
    /\ (cpc # "idle") ~> (cpc = "idle")

\* C16: the steps of one cycle come in the order drain, snapshot build with
\* its sanity checks, chain traversal, alarm evaluation (the raise decision
\* and the clear), reschedule; the raise decision is taken after the drain
\* and on the drained mask.
C16_StepOrder ==
    [][/\ (alarm' = 1 /\ alarm = 0) => (cpc = "clear" /\ drained = {})
       /\ (AlarmAttitude' # AlarmAttitude) => cpc = "clear"
       /\ (updatedSensors' = {} /\ updatedSensors # {}) => DrainStep
       /\ (sRead' # sRead /\ cpc' # "idle") => BuildStep
       /\ (ran' # ran /\ cpc' # "idle") => cpc = "chain"
       /\ (scheduled' /\ ~scheduled) => cpc = "resched"]_vars

\* the scheduler starts a run of the callback
RunStep == cpc = "idle" /\ cpc' = "check"

\* C17: soonest-wins rescheduling: a run started by a notification cancels
\* the timeout left pending by the schedule before it, the end of the cycle
\* arms a full TIMEOUT_MS, and a timeout-driven run starts no earlier than
\* TIMEOUT_MS after the last reschedule.
C17_SoonestWins ==
    /\ [][/\ (RunStep /\ waiting) => (~scheduled' /\ ~waiting')
          /\ (cpc # "idle") => ~scheduled
          /\ (cpc = "resched" /\ cpc' = "idle" /\ early)
                 => (scheduled' /\ remaining' = TIMEOUT_MS)
          /\ (RunStep /\ ~waiting) => elapsed >= TIMEOUT_MS]_vars
    /\ (cpc = "resched" /\ early) ~> (cpc = "check")

\* a full timeout has passed since the reschedule of a cycle that a
\* notification had started while a timeout was pending: the next run is due
C17_Witness ==
    /\ cpc = "idle"
    /\ early
    /\ ~waiting
    /\ scheduled /\ remaining = 0
    /\ elapsed >= TIMEOUT_MS

\* C18: home/matrix consistency: whenever a cycle converts a position with
\* getNED, the stored home reference is sane and LLA2NEDM is the matrix
\* computed from that same reference (never the matrix of an earlier
\* reference, never the matrix that was never computed).
C18_HomeMatrixConsistent ==
    [][(BuildStep /\ "pos" \in sensors'.updated)
          => (HomeSane(homeLocation) /\ LLA2NEDM = Matrix(homeLocation))]_vars

====
